---- MODULE Spec2Model ----
(***************************************************************************)
(* Model of the Kaleidoscope lexer (src/src/lexer.rs).                     *)
(*                                                                         *)
(* A source text is a sequence of characters, each a one-character string. *)
(* The Peekable<Chars> cursor is the number of characters consumed so far: *)
(* peek looks at the character after the cursor without moving it, next    *)
(* moves the cursor over it.  Option<T> is a sequence of length 0 or 1.    *)
(***************************************************************************)
EXTENDS Integers, Sequences, FiniteSets, TLC

\* ------------------------------------------------------------------ bounds
MaxLen == 4
MaxWords == 3
MaxSpaces == 2
MaxExtraCalls == 2
MaxLiveLen == 3

\* -------------------------------------------------------------- characters
Lower ==
  {"a","b","c","d","e","f","g","h","i","j","k","l","m",
   "n","o","p","q","r","s","t","u","v","w","x","y","z"}

Upper ==
  {"A","B","C","D","E","F","G","H","I","J","K","L","M",
   "N","O","P","Q","R","S","T","U","V","W","X","Y","Z"}

Digits ==
  {"0","1","2","3","4","5","6","7","8","9"}

is_alphabetic(c) ==
  c \in Lower \cup Upper

is_digit(c) ==
  c \in Digits

is_alphanumeric(c) ==
  is_alphabetic(c) \/ is_digit(c)

is_number_char(c) ==
  is_digit(c) \/ c = "."

\* ------------------------------------------------------------------ tokens
None ==
  <<>>

Some(x) ==
  <<x>>

NoNumber ==
  <<0, 0>>

Token(kind, text, num) ==
  [kind |-> kind, text |-> text, num |-> num]

Define ==
  Token("Define", <<>>, NoNumber)

Having ==
  Token("Having", <<>>, NoNumber)

Assigned ==
  Token("Assigned", <<>>, NoNumber)

Extern ==
  Token("Extern", <<>>, NoNumber)

Block ==
  Token("Block", <<>>, NoNumber)

EndLine ==
  Token("EndLine", <<>>, NoNumber)

Identifier(text) ==
  Token("Identifier", text, NoNumber)

Number(value) ==
  Token("Number", <<>>, value)

String(text) ==
  Token("String", text, NoNumber)

UnknownChar(c) ==
  Token("UnknownChar", <<c>>, NoNumber)

\* Outcomes of a call that are not Some(token).
NoToken ==
  Token("None", <<>>, NoNumber)

Panic ==
  Token("Panic", <<>>, NoNumber)

NotCalled ==
  Token("NotCalled", <<>>, NoNumber)

IsToken(t) ==
  t.kind \notin {"None", "Panic", "NotCalled"}

\* ------------------------------------------------------- f64 from a string
\* str::parse::<f64> on a span of digits and '.': it accepts Digit* ['.' Digit*]
\* with at least one digit in all.  The value m / 10^k is kept as <<m, k>> in
\* lowest terms (k = 0, or m not a multiple of 10).
digit_value(c) ==
  CASE c = "0" -> 0 [] c = "1" -> 1 [] c = "2" -> 2 [] c = "3" -> 3
    [] c = "4" -> 4 [] c = "5" -> 5 [] c = "6" -> 6 [] c = "7" -> 7
    [] c = "8" -> 8 [] c = "9" -> 9

RECURSIVE digits_value(_)
digits_value(ds) ==
  IF ds = <<>> THEN 0
  ELSE 10 * digits_value(SubSeq(ds, 1, Len(ds) - 1)) + digit_value(ds[Len(ds)])

RECURSIVE pow10(_)
pow10(k) ==
  IF k = 0 THEN 1 ELSE 10 * pow10(k - 1)

RECURSIVE f64_normal(_, _)
f64_normal(m, k) ==
  IF k > 0 /\ m % 10 = 0 THEN f64_normal(m \div 10, k - 1) ELSE <<m, k>>

dots(num) ==
  {i \in 1..Len(num) : num[i] = "."}

parse_ok(num) ==
  /\ Cardinality(dots(num)) <= 1
  /\ \E i \in 1..Len(num) : is_digit(num[i])

parse_f64(num) ==
  LET d == IF dots(num) = {} THEN Len(num) + 1 ELSE CHOOSE i \in dots(num) : TRUE
      whole == SubSeq(num, 1, d - 1)
      frac == SubSeq(num, d + 1, Len(num))
  IN f64_normal(digits_value(whole) * pow10(Len(frac)) + digits_value(frac),
                Len(frac))

\* ------------------------------------------------------- Peekable<Chars>
chars_peek(s, p) ==
  IF p < Len(s) THEN Some(s[p + 1]) ELSE None

chars_next(s, p) ==
  IF p < Len(s) THEN [item |-> Some(s[p + 1]), pos |-> p + 1]
  ELSE [item |-> None, pos |-> p]

\* Variant: find that takes the next character whatever it is.
chars_find_any(s, p) ==
  chars_next(s, p)

\* self.chars.find(|&c| c != ' '): consumes the spaces and the first character
\* that is not a space, which it returns (None at the end of the input).
RECURSIVE chars_find(_, _)
chars_find(s, p) ==
  IF chars_peek(s, p) = Some(" ") THEN chars_find(s, p + 1)
  ELSE chars_next(s, p)

\* The peek/next loops of get_token: the cursor after the longest run of
\* characters the loop's match arm accepts (next after a peek that gave Some
\* moves the cursor by one).
RECURSIVE eat_alphanumeric(_, _)
eat_alphanumeric(s, p) ==
  LET xp == chars_peek(s, p)
  IN IF xp # None /\ is_alphanumeric(xp[1])
     THEN eat_alphanumeric(s, p + 1) ELSE p

RECURSIVE eat_number(_, _)
eat_number(s, p) ==
  LET xp == chars_peek(s, p)
  IN IF xp # None /\ is_number_char(xp[1])
     THEN eat_number(s, p + 1) ELSE p

RECURSIVE eat_string(_, _)
eat_string(s, p) ==
  LET xp == chars_peek(s, p)
  IN IF xp # None /\ xp[1] # "\""
     THEN eat_string(s, p + 1) ELSE p

\* Variant: the comment loop stops at '\r' only.
RECURSIVE eat_comment_cr(_, _)
eat_comment_cr(s, p) ==
  LET xp == chars_peek(s, p)
  IN IF xp # None /\ xp[1] # "\r"
     THEN eat_comment_cr(s, p + 1) ELSE p

RECURSIVE eat_comment(_, _)
eat_comment(s, p) ==
  LET xp == chars_peek(s, p)
  IN IF xp # None /\ xp[1] # "\r" /\ xp[1] # "\n"
     THEN eat_comment(s, p + 1) ELSE p

\* ------------------------------------------------------------- get_token
\* Every branch takes the source s and the cursor p just after the dispatched
\* character c = s[p], and gives the call's outcome: the token (or NoToken,
\* Panic), the cursor afterwards, the index of the character whose branch made
\* the outcome (0 when there was none) and the comments skipped on the way,
\* each as <<index of '#', index of its last character>>.
Outcome(tok, p, d, sk) ==
  [tok |-> tok, pos |-> p, disp |-> d, skipped |-> sk]

\* Variant: a keyword is recognised as a prefix of the identifier.
starts_with(iden, kw) ==
  Len(iden) >= Len(kw) /\ SubSeq(iden, 1, Len(kw)) = kw

keyword_prefix(iden) ==
  CASE starts_with(iden, <<"c","r","e","a","t","e">>) -> Define
    [] starts_with(iden, <<"e","x","t","e","r","n">>) -> Extern
    [] starts_with(iden, <<"i","n">>) -> Block
    [] OTHER -> Identifier(iden)

keyword(iden) ==
  CASE iden = <<"c","r","e","a","t","e">> -> Define
    [] iden = <<"e","x","t","e","r","n">> -> Extern
    [] iden = <<"i","n">> -> Block
    [] OTHER -> Identifier(iden)

lex_identifier(s, p) ==
  LET e == eat_alphanumeric(s, p)
  IN Outcome(keyword(SubSeq(s, p, e)), e, p, <<>>)

\* Variant: the character after the apostrophe is peeked, not consumed.
lex_apostrophe_peek(s, c, p) ==
  Outcome(IF chars_peek(s, p) = Some("s") THEN Having ELSE UnknownChar(c),
          p, p, <<>>)

lex_apostrophe(s, c, p) ==
  LET xp == chars_next(s, p)
  IN Outcome(IF xp.item = Some("s") THEN Having ELSE UnknownChar(c),
             xp.pos, p, <<>>)

\* Variant: a span that does not parse is given up as an unknown character.
lex_number_lenient(s, p) ==
  LET e == eat_number(s, p)
      num == SubSeq(s, p, e)
  IN Outcome(IF parse_ok(num) THEN Number(parse_f64(num)) ELSE UnknownChar(s[p]),
             e, p, <<>>)

lex_number(s, p) ==
  LET e == eat_number(s, p)
      num == SubSeq(s, p, e)
  IN Outcome(IF parse_ok(num) THEN Number(parse_f64(num)) ELSE Panic,
             e, p, <<>>)

\* Variant: the closing quote is left in the input.
lex_string_keep_quote(s, p) ==
  LET e == eat_string(s, p)
  IN Outcome(String(SubSeq(s, p + 1, e)), e, p, <<>>)

lex_string(s, p) ==
  LET e == eat_string(s, p)
  IN Outcome(String(SubSeq(s, p + 1, e)), chars_next(s, e).pos, p, <<>>)

RECURSIVE Lexer_next(_, _)

\* Variant: a comment ends the call with None.
lex_comment_stop(s, p) ==
  LET e == eat_comment(s, p)
  IN Outcome(NoToken, e, 0, <<<<p, e>>>>)

\* Variant: the character that ends the comment is consumed with it.
lex_comment_skip_line(s, p) ==
  LET e == eat_comment(s, p)
      r == Lexer_next(s, chars_next(s, e).pos)
  IN Outcome(r.tok, r.pos, r.disp, <<<<p, e>>>> \o r.skipped)

lex_comment(s, p) ==
  LET e == eat_comment(s, p)
      r == Lexer_next(s, e)
  IN Outcome(r.tok, r.pos, r.disp, <<<<p, e>>>> \o r.skipped)

get_token(s, c, p) ==
  IF is_alphabetic(c) THEN lex_identifier(s, p)
  ELSE IF c = "'" THEN lex_apostrophe(s, c, p)
  ELSE IF is_number_char(c) THEN lex_number(s, p)
  ELSE IF c = "\"" THEN lex_string(s, p)
  ELSE IF c = "=" THEN Outcome(Assigned, p, p, <<>>)
  ELSE IF c = "\n" THEN Outcome(EndLine, p, p, <<>>)
  ELSE IF c = "#" THEN lex_comment(s, p)
  ELSE Outcome(UnknownChar(c), p, p, <<>>)

\* Variant: the end of the input is reported as one more EndLine.
Lexer_next_eof_line(s, p) ==
  LET n == chars_find(s, p)
  IN IF n.item = None THEN Outcome(EndLine, n.pos, 0, <<>>)
     ELSE get_token(s, n.item[1], n.pos)

Lexer_next(s, p) ==
  LET n == chars_find(s, p)
  IN IF n.item = None THEN Outcome(NoToken, n.pos, 0, <<>>)
     ELSE get_token(s, n.item[1], n.pos)

\* ------------------------------------------------------------------ inputs
Alphabet ==
  {" ", "\n", "\r", "#", "'", "\"", "=", "s", "1", "."}

RECURSIVE SeqsUpTo(_, _)
SeqsUpTo(S, n) ==
  IF n = 0 THEN {<<>>}
  ELSE LET shorter == SeqsUpTo(S, n - 1)
       IN shorter \cup {Append(t, x) : t \in {u \in shorter : Len(u) = n - 1}, x \in S}

Words ==
  { <<"c","r","e","a","t","e">>, <<"e","x","t","e","r","n">>, <<"i","n">>,
    <<"s">>, <<"s","i","d","e">>, <<"1">>, <<" ">>, <<"=">> }

RECURSIVE Concat(_)
Concat(ws) ==
  IF ws = <<>> THEN <<>> ELSE Head(ws) \o Concat(Tail(ws))

WordInputs ==
  {Concat(ws) : ws \in SeqsUpTo(Words, MaxWords)}

test_simple_tokens_and_value ==
  <<"1", " ", "+", " ", "1", " ", "-", " ", "f", "o", "o">>

test_simple_tokens_and_value_no_whitespace ==
  <<"1", "+", "1", "-", "f", "o", "o">>

test_comments ==
  <<"#", " ", "T", "h", "i", "s", " ", "i", "s", " ", "a", " ", "c", "o", "m",
    "m", "e", "n", "t", " ", "1", "+", "1", "\n",
    " ", " ", " ", " ", " ", " ", " ", " ", "1", " ", "+", " ", "2", " ", "#",
    " ", "<", "-", " ", "i", "s", " ", "c", "o", "d", "e", "\n",
    " ", " ", " ", " ", " ", " ", " ", " ", "#", " ", "t", "h", "i", "s", " ",
    "i", "s", " ", "n", "o", "t">>

\* The sample of main.
sample ==
  <<"\n", " ", " ", " ", " ", "#", " ", "p", "r", "i", "n", "t", " ", "a",
    " ", "h", "e", "l", "l", "o", " ", "w", "o", "r", "l", "d", "\n", " ",
    " ", " ", " ", "c", "r", "e", "a", "t", "e", " ", "g", "a", "m", "e",
    "\n", " ", " ", " ", " ", "g", "a", "m", "e", "'", "s", " ", "w", "i",
    "d", "t", "h", " ", "=", " ", "5", "0", "0", "\n", " ", " ", " ", " ",
    "g", "a", "m", "e", "'", "s", " ", "h", "e", "i", "g", "h", "t", " ",
    "=", " ", "6", "0", "0", "\n", " ", " ", " ", " ", "i", "n", " ", "g",
    "a", "m", "e", "\n", " ", " ", " ", " ", " ", " ", "p", "r", "i", "n",
    "t", " ", "\"", "h", "e", "l", "l", "o", " ", "w", "o", "r", "l", "d",
    "!", "\"", "\n", " ", " ", " ", " ">>

\* "create creates in inside extern"
keyword_sample ==
  <<"c", "r", "e", "a", "t", "e", " ", "c", "r", "e", "a", "t", "e", "s",
    " ", "i", "n", " ", "i", "n", "s", "i", "d", "e", " ", "e", "x", "t",
    "e", "r", "n">>

Samples ==
  { test_simple_tokens_and_value, test_simple_tokens_and_value_no_whitespace,
    test_comments, sample, keyword_sample,
    <<"1", ".", "2", ".", "3">>, <<".", "5">>, <<"0", "1", ".", "5", "0">>,
    <<"\"", "h", "e", "l", "l", "o", " ", "w", "o", "r", "l", "d", "!", "\"">>,
    <<"#", "a", "\n", "#", "b", "\n", "#", "c">> }

Inputs ==
  SeqsUpTo(Alphabet, MaxLen) \cup WordInputs \cup Samples

\* The inputs of the scans whose termination is checked.
LiveInputs ==
  SeqsUpTo(Alphabet, MaxLiveLen) \cup Samples

\* ------------------------------------------------------------------- state
\* src, pos: the Lexer's fields (source and cursor of chars).  The others
\* record what the caller has seen: toks the tokens yielded so far, spans for
\* each of them <<index of its dispatched character, cursor after its call>>,
\* ret, disp, skipped the outcome of the latest call, extra the number of calls
\* made after a None.
VARIABLES src, pos, toks, spans, ret, disp, skipped, extra

vars ==
  <<src, pos, toks, spans, ret, disp, skipped, extra>>

\* Lexer::new: the cursor is at the start of the source, nothing was yielded.
Constructed ==
  /\ pos = 0
  /\ toks = <<>>
  /\ spans = <<>>
  /\ ret = NotCalled
  /\ disp = 0
  /\ skipped = <<>>
  /\ extra = 0

Init ==
  /\ src \in Inputs
  /\ Constructed

LiveInit ==
  /\ src \in LiveInputs
  /\ Constructed

\* One call of Iterator::next.  A panic unwinds through the caller, so no call
\* follows it; calls after None are made MaxExtraCalls times.
Call_next ==
  /\ ret # Panic
  /\ ret = NoToken => extra < MaxExtraCalls
  /\ LET r == Lexer_next(src, pos)
     IN /\ pos' = r.pos
        /\ ret' = r.tok
        /\ toks' = IF IsToken(r.tok) THEN Append(toks, r.tok) ELSE toks
        /\ spans' = IF IsToken(r.tok) THEN Append(spans, <<r.disp, r.pos>>)
                     ELSE spans
        /\ disp' = r.disp
        /\ skipped' = r.skipped
  /\ extra' = IF ret = NoToken THEN extra + 1 ELSE extra
  /\ UNCHANGED src

Next ==
  Call_next

Spec ==
  Init /\ [][Next]_vars

\* ------------------------------------------------------- helpers of claims
Finished ==
  ret = NoToken \/ ret = Panic

\* What a caller that drives next to the end sees for source s from cursor p:
\* the tokens, then NoToken or Panic.
RECURSIVE drain(_, _)
drain(s, p) ==
  LET r == Lexer_next(s, p)
  IN IF IsToken(r.tok) THEN <<r.tok>> \o drain(s, r.pos) ELSE <<r.tok>>

InsertSpaces(s, p, k) ==
  SubSeq(s, 1, p) \o [i \in 1..k |-> " "] \o SubSeq(s, p + 1, Len(s))

Count(s, c) ==
  Cardinality({j \in 1..Len(s) : s[j] = c})

CountKind(ts, kind) ==
  Cardinality({i \in 1..Len(ts) : ts[i].kind = kind})

Min(a, b) ==
  IF a < b THEN a ELSE b

\* Token i is a string literal whose closing quote is missing.
Unterminated(i) ==
  /\ toks[i].kind = "String"
  /\ \A j \in (spans[i][1] + 1)..Len(src) : src[j] # "\""

\* The places between tokens: the start of the source and the cursor after
\* each call that yielded a token.
Boundaries ==
  {0} \cup {spans[i][2] : i \in 1..Len(spans)}

\* ------------------------------------------------------------------ claims

\* C1 (as claimed): the input of test_comments yields exactly Number(1.0),
\* UnknownChar('+'), Number(2.0) and then the end of the sequence, the
\* comments and their lines contributing no token.
C1_TestCommentsTokens ==
  (src = test_comments /\ ret = NoToken)
    => toks = <<Number(<<1, 0>>), UnknownChar("+"), Number(<<2, 0>>)>>

\* C2 (as claimed): for every input, inserting spaces before the first token,
\* after the last token or between two consecutive tokens leaves the sequence
\* of tokens (and how it ends) unchanged.
C2_SpacesNeverMatter ==
  Finished =>
    \A p \in Boundaries : \A k \in 1..MaxSpaces :
      drain(InsertSpaces(src, p, k), 0) = Append(toks, ret)

\* C2 (amended): inserting spaces at a place between tokens leaves the sequence
\* of tokens unchanged, except after a string literal whose closing quote is
\* missing: spaces appended there become the end of that String's payload and
\* nothing else changes.
C2_SpacesBetweenTokens ==
  Finished =>
    \A p \in Boundaries : \A k \in 1..MaxSpaces :
      LET n == Len(toks)
          open == n > 0 /\ p = spans[n][2] /\ Unterminated(n)
          longer == String(toks[n].text \o [i \in 1..k |-> " "])
      IN drain(InsertSpaces(src, p, k), 0) =
           IF open THEN Append(Append(SubSeq(toks, 1, n - 1), longer), ret)
           ELSE Append(toks, ret)

C2_Witness ==
  /\ Finished
  /\ Len(toks) >= 2
  /\ Unterminated(Len(toks))
  /\ \E i \in 1..Len(src) : src[i] = " "

InString(j) ==
  \E i \in 1..Len(toks) :
    toks[i].kind = "String" /\ spans[i][1] < j /\ j <= spans[i][2]

AfterApostrophe(j) ==
  \E i \in 1..Len(toks) : src[spans[i][1]] = "'" /\ j = spans[i][1] + 1

C4_Apostrophe ==
  \A i \in 1..Len(toks) :
    LET d == spans[i][1]
    IN src[d] = "'" =>
         /\ spans[i][2] = Min(d + 1, Len(src))
         /\ toks[i] = IF d < Len(src) /\ src[d + 1] = "s" THEN Having
                      ELSE UnknownChar("'")
         /\ \A h \in 1..Len(toks) : spans[h][1] # d + 1

C4_Witness ==
  /\ Len(toks) >= 2
  /\ toks[1] = UnknownChar("'")
  /\ toks[2] = Having
  /\ src[2] \in {"#", "\"", "\n", "=", "1"}

\* The longest run of characters of the set S that starts at index d of src.
RunEnd(d, S) ==
  CHOOSE e \in d..Len(src) :
    /\ \A j \in d..e : src[j] \in S
    /\ e < Len(src) => src[e + 1] \notin S

ValidFloat(num) ==
  /\ Count(num, ".") <= 1
  /\ Count(num, ".") < Len(num)

\* C5: a call dispatched on a digit or '.' consumes the longest run of digits
\* and '.' from there; if the run is a valid float literal the call yields one
\* Number for the whole run; otherwise the scan aborts, the call adds no token
\* and no call follows.
C5_Step ==
  /\ ret # Panic
  /\ (disp' > 0 /\ is_number_char(src[disp'])) =>
       LET e == RunEnd(disp', Digits \cup {"."})
           num == SubSeq(src, disp', e)
       IN /\ pos' = e
          /\ IF ValidFloat(num)
             THEN /\ ret' = Number(parse_f64(num))
                  /\ toks' = Append(toks, ret')
             ELSE /\ ret' = Panic
                  /\ toks' = toks

C5_Number ==
  [][C5_Step]_vars

C5_Witness ==
  /\ ret = Panic
  /\ toks = <<Number(<<1, 0>>)>>
  /\ src[2] = "."

\* C6: a call dispatched on a double quote yields String of the characters up
\* to the next double quote, which it consumes; without a closing quote the
\* String holds all the remaining characters, and the call after it gives
\* None.
C6_Step ==
  /\ \A i \in 1..Len(toks') :
       LET d == spans'[i][1]
           quotes == {j \in (d + 1)..Len(src) : src[j] = "\""}
           q == IF quotes = {} THEN Len(src) + 1
                ELSE CHOOSE j \in quotes : \A h \in quotes : j <= h
       IN src[d] = "\"" =>
            /\ toks'[i] = String(SubSeq(src, d + 1, q - 1))
            /\ spans'[i][2] = Min(q, Len(src))
  /\ (IsToken(ret) /\ Unterminated(Len(toks))) => (ret' = NoToken /\ toks' = toks)

C6_String ==
  [][C6_Step]_vars

C6_Witness ==
  /\ ret = NoToken
  /\ Len(toks) = 2
  /\ toks[1].kind = "String"
  /\ Unterminated(2)
  /\ \E c \in {"\n", " ", "#", "'"} : \E j \in 1..Len(toks[2].text) : toks[2].text[j] = c

\* C7: a call dispatched on an alphabetic character consumes the longest run
\* of alphanumeric characters from there and yields Define, Extern or Block
\* exactly when the run is "create", "extern" or "in", and otherwise one
\* Identifier carrying the whole run.
C7_Keywords ==
  \A i \in 1..Len(toks) :
    LET d == spans[i][1]
        e == RunEnd(d, Lower \cup Upper \cup Digits)
        run == SubSeq(src, d, e)
    IN src[d] \in Lower \cup Upper =>
         /\ spans[i][2] = e
         /\ toks[i] = Define <=> run = <<"c","r","e","a","t","e">>
         /\ toks[i] = Extern <=> run = <<"e","x","t","e","r","n">>
         /\ toks[i] = Block <=> run = <<"i","n">>
         /\ toks[i] \notin {Define, Extern, Block} => toks[i] = Identifier(run)

C7_Witness ==
  toks = << Define, Identifier(<<"c","r","e","a","t","e","s">>), Block,
            Identifier(<<"i","n","s","i","d","e">>), Extern >>

\* C8: once a call has given None, every later call gives None, and yields
\* nothing and moves nothing.
C8_Step ==
  ret = NoToken => (ret' = NoToken /\ toks' = toks /\ pos' = pos)

C8_EndIsStable ==
  [][C8_Step]_vars

C8_Witness ==
  /\ ret = NoToken
  /\ extra >= 2
  /\ Len(toks) >= 1
  /\ \/ Unterminated(Len(toks))
     \/ src[Len(src)] \in {" ", "'"}
     \/ \E j \in 1..Len(src) : src[j] = "#" /\ \A h \in j..Len(src) : src[h] # "\n"

C10_Step ==
  /\ pos' >= pos
  /\ IsToken(ret') => pos' > pos
  /\ Len(toks') <= pos'
  /\ pos' <= Len(src)

C10_Progress ==
  [][C10_Step]_vars /\ <>[]Finished

C10_Witness ==
  /\ ret = NoToken
  /\ Len(src) >= 3
  /\ Len(toks) = Len(src)

\* The caller keeps calling next until it gets None or the scan aborts.
LiveSpec ==
  LiveInit /\ [][Next]_vars /\ WF_vars(Call_next)

====
